---- MODULE Spec2Model ----
(***************************************************************************)
(* Model of the two Lambda handlers of the invoice pipeline:               *)
(*   InvoiceJobSubmitter.lambda_handler  (the Submitter)                   *)
(*   ProcessBDAResults.lambda_handler    (the ResultProcessor)             *)
(*                                                                         *)
(* A Python string is a sequence of pieces; the string it stands for is    *)
(* the concatenation of the pieces.  Characters the code inspects          *)
(* ('/', '.', '#', '?', '+', '_') are always pieces of their own.          *)
(* A confidence is a number of hundredths (90 stands for 0.90); an         *)
(* average is kept as the exact fraction num/den.                          *)
(***************************************************************************)
EXTENDS Integers, Sequences, FiniteSets, TLC

VARIABLES unit, env, event, s3obj, now, pc, output_key, bda_results,
          invoice_data, human_loop, err, putItems, table, a2iCalls,
          bdaCalls, response

vars == <<unit, env, event, s3obj, now, pc, output_key, bda_results,
          invoice_data, human_loop, err, putItems, table, a2iCalls,
          bdaCalls, response>>

----------------------------------------------------------------------------
(* Bounds of the model. *)

\* Longest destination name (in characters) of a completion event.
MaxNameLen == 2
\* Seconds the clock may advance during one invocation.
MaxTime == 1

----------------------------------------------------------------------------
(* Python values: None, str, int, float, and "missing" for an absent key. *)

Missing == [t |-> "missing", s |-> <<>>, n |-> 0]
PyNone == [t |-> "none", s |-> <<>>, n |-> 0]
PyStr(s) == [t |-> "str", s |-> s, n |-> 0]
PyInt(n) == [t |-> "int", s |-> <<>>, n |-> n]
PyFloat(n) == [t |-> "float", s |-> <<>>, n |-> n]
PyBool(b) == [t |-> "bool", s |-> <<>>, n |-> IF b THEN 1 ELSE 0]

\* bool(v): None, "", 0, 0.0 and False are falsy.
Truthy(v) ==
    CASE v.t = "none" -> FALSE
      [] v.t = "str" -> v.s # <<>>
      [] OTHER -> v.n # 0

IsNumber(v) == v.t \in {"int", "float", "bool"}

\* dict.get(key, default) on a key that may be absent.
Get(v, default) == IF v.t = "missing" THEN default ELSE v

----------------------------------------------------------------------------
(* String helpers. *)

Digit(d) == CASE d = 0 -> "0" [] d = 1 -> "1" [] d = 2 -> "2" [] d = 3 -> "3"
              [] d = 4 -> "4" [] d = 5 -> "5" [] d = 6 -> "6" [] d = 7 -> "7"
              [] d = 8 -> "8" [] d = 9 -> "9"

DigitChars == {"0", "1", "2", "3", "4", "5", "6", "7", "8", "9"}

RECURSIVE Digits(_)
\* str(n) for a natural number n.
Digits(n) == IF n < 10 THEN <<Digit(n)>> ELSE Digits(n \div 10) \o <<Digit(n % 10)>>

TwoDigits(n) == <<Digit((n \div 10) % 10), Digit(n % 10)>>

\* str(v) as an f-string renders it.
Str(v) ==
    CASE v.t = "str" -> v.s
      [] v.t = "none" -> <<"None">>
      [] v.t = "int" -> Digits(v.n)
      [] v.t = "bool" -> IF v.n = 1 THEN <<"True">> ELSE <<"False">>
      [] OTHER -> <<"0", ".">> \o TwoDigits(v.n)

\* Index of the first piece of s that is in chars, 0 when there is none.
FirstIn(s, chars) ==
    IF \E i \in 1..Len(s) : s[i] \in chars
    THEN CHOOSE i \in 1..Len(s) : s[i] \in chars /\ \A j \in 1..(i - 1) : s[j] \notin chars
    ELSE 0

\* Index of the last piece of s that is in chars, 0 when there is none.
LastIn(s, chars) ==
    IF \E i \in 1..Len(s) : s[i] \in chars
    THEN CHOOSE i \in 1..Len(s) : s[i] \in chars /\ \A j \in (i + 1)..Len(s) : s[j] \notin chars
    ELSE 0

\* s.split(c)[0]
SplitFirst(s, c) ==
    LET i == FirstIn(s, {c}) IN IF i = 0 THEN s ELSE SubSeq(s, 1, i - 1)

\* s.split(c)[-1]
SplitLast(s, c) ==
    LET i == LastIn(s, {c}) IN IF i = 0 THEN s ELSE SubSeq(s, i + 1, Len(s))

\* s.lstrip(c)
LStrip(s, c) ==
    LET i == FirstIn(s, {x \in {s[k] : k \in 1..Len(s)} : x # c})
    IN IF i = 0 THEN <<>> ELSE SubSeq(s, i, Len(s))

EndsWith(s, c) == Len(s) > 0 /\ s[Len(s)] = c
StartsWith(s, c) == Len(s) > 0 /\ s[1] = c

\* t occurs in s as a contiguous run of pieces.
Contains(s, t) ==
    \E i \in 1..(Len(s) - Len(t) + 1) : SubSeq(s, i, i + Len(t) - 1) = t

\* All strings over alphabet of length at most n.
StringsUpTo(alphabet, n) == UNION {[1..k -> alphabet] : k \in 0..n}

----------------------------------------------------------------------------
(* Clock: datetime.now() read by the handlers.  The invocation starts at   *)
(* 2026-01-05 14:42:14 (the time of the completion event in the handler's  *)
(* docstring) and `now` counts the seconds elapsed since then.             *)

\* datetime.now().strftime('%Y%m%d%H%M%S')
Stamp(t) ==
    <<"2", "0", "2", "6", "0", "1", "0", "5", "1", "4", "4", "2">> \o TwoDigits(14 + t)

\* datetime.now().strftime('%Y%m%d_%H%M%S')
StampUnderscore(t) ==
    <<"2", "0", "2", "6", "0", "1", "0", "5", "_", "1", "4", "4", "2">> \o TwoDigits(14 + t)

\* datetime.now().isoformat()
IsoFormat(t) == <<"2026-01-05T14:42:">> \o TwoDigits(14 + t)

\* The instants a read of the clock may return: time never runs backwards.
Later == now..MaxTime

----------------------------------------------------------------------------
(* ResultProcessor: configuration and the extraction result.               *)

\* CONFIDENCE_THRESHOLD default, in hundredths.
DefaultThreshold == 70

\* The eight named fields, in the order of the loop of extract_invoice_data:
\* record key, name in the extraction result, default of get_field.
FieldTable ==
    << [rec |-> "invoice_number", bda |-> "Invoice number", default |-> PyNone],
       [rec |-> "vendor_name", bda |-> "VendorSupplier name", default |-> PyNone],
       [rec |-> "total_amount", bda |-> "Total amount due", default |-> PyNone],
       [rec |-> "tax_amount", bda |-> "Tax amount", default |-> PyNone],
       [rec |-> "subtotal", bda |-> "Subtotal", default |-> PyNone],
       [rec |-> "invoice_date", bda |-> "Invoice date", default |-> PyNone],
       [rec |-> "due_date", bda |-> "Due date", default |-> PyNone],
       [rec |-> "currency", bda |-> "Currency", default |-> PyStr(<<"USD">>)] >>

RecNames == {FieldTable[i].rec : i \in 1..Len(FieldTable)}

\* One entry of explainability_info[0]; a key the entry lacks is Missing.
Entry(value, confidence, success) ==
    [value |-> value, confidence |-> confidence, success |-> success]

\* A field the result does not mention: extraction_data.get(name, {}) is {}.
Absent == Entry(Missing, Missing, Missing)

\* get_field(field_name, default_value)
get_field(extraction_data, bda, default) ==
    LET field_data == extraction_data[bda]
    IN [value |-> Get(field_data.value, default),
        confidence |-> Get(field_data.confidence, PyFloat(0)),
        success |-> Get(field_data.success, PyBool(FALSE))]

\* The eight get_field calls, keyed by record key.
GetFields(extraction_data) ==
    [r \in RecNames |->
        LET i == CHOOSE i \in 1..Len(FieldTable) : FieldTable[i].rec = r
        IN get_field(extraction_data, FieldTable[i].bda, FieldTable[i].default)]

\* if field_data['success'] and field_data['value'] is not None
Qualifies(field_data) == Truthy(field_data.success) /\ field_data.value.t # "none"

RECURSIVE ConfidenceScores(_, _)
\* confidence_scores after the first k rounds of the loop.
ConfidenceScores(fields, k) ==
    IF k = 0 THEN <<>>
    ELSE LET field_data == fields[FieldTable[k].rec]
         IN IF Qualifies(field_data)
            THEN Append(ConfidenceScores(fields, k - 1), field_data.confidence)
            ELSE ConfidenceScores(fields, k - 1)

RECURSIVE FieldConfidences(_, _)
\* field_confidences after the first k rounds of the loop; a key the dict
\* does not hold is Missing.
FieldConfidences(fields, k) ==
    IF k = 0 THEN [r \in RecNames |-> Missing]
    ELSE LET field_data == fields[FieldTable[k].rec]
             before == FieldConfidences(fields, k - 1)
         IN IF Qualifies(field_data)
            THEN [before EXCEPT ![FieldTable[k].rec] = field_data.confidence]
            ELSE before

RECURSIVE SumSeq(_)
\* sum(confidence_scores), for scores that are numbers.
SumSeq(scores) == IF scores = <<>> THEN 0 ELSE scores[1].n + SumSeq(Tail(scores))

\* sum() raises TypeError on a score that is no number (a null confidence).
SumRaises(scores) == \E i \in 1..Len(scores) : ~IsNumber(scores[i])

\* A float kept as the exact fraction num/den of hundredths.
Fraction(num, den) == [t |-> "float", num |-> num, den |-> den]

\* Mutant of AvgConfidence: the sum is divided by the number of named fields.
AvgConfidenceAllFields(scores) ==
    IF scores # <<>> THEN Fraction(SumSeq(scores), Len(FieldTable)) ELSE Fraction(0, 1)

\* sum(confidence_scores) / len(confidence_scores) if confidence_scores else 0.0
AvgConfidence(scores) ==
    IF scores # <<>> THEN Fraction(SumSeq(scores), Len(scores)) ELSE Fraction(0, 1)

\* avg_confidence >= CONFIDENCE_THRESHOLD
AtLeast(avg, threshold) == avg.num >= threshold * avg.den

\* Mutant of RecordStatus: the boundary is excluded.
RecordStatusStrict(avg, threshold) ==
    IF avg.num > threshold * avg.den THEN "high_confidence" ELSE "needs_review"

\* 'high_confidence' if avg_confidence >= CONFIDENCE_THRESHOLD else 'needs_review'
RecordStatus(avg, threshold) ==
    IF AtLeast(avg, threshold) THEN "high_confidence" ELSE "needs_review"

\* Mutant of Percent: the percentage is cut off after two decimals.
PercentTruncated(avg) ==
    LET bp == (avg.num * 100) \div avg.den
    IN Digits(bp \div 100) \o <<".">> \o TwoDigits(bp % 100) \o <<"%">>

\* f"{x:.2%}": the percentage with two decimals, rounded half to even.
Percent(avg) ==
    LET scaled == avg.num * 100
        q == scaled \div avg.den
        r == scaled % avg.den
        up == 2 * r > avg.den \/ (2 * r = avg.den /\ q % 2 = 1)
        bp == IF up THEN q + 1 ELSE q
    IN Digits(bp \div 100) \o <<".">> \o TwoDigits(bp % 100) \o <<"%">>

\* f"s3://{bucket}/{name}"
S3Uri(bucket, name) == <<"s3:", "/", "/", bucket, "/">> \o name

\* input_s3_uri.split('/')[-1].split('.')[0]
FileName(input_s3_uri) == SplitFirst(SplitLast(input_s3_uri, "/"), ".")

\* Mutant of UseExtractedId: only None selects the fallback.
UseExtractedIdNotNone(invoice_id) == invoice_id.t # "none"

\* not (not invoice_id): the extracted value is kept when it is truthy.
UseExtractedId(invoice_id) == Truthy(invoice_id)

\* f"{filename}_{timestamp}"
FallbackId(input_s3_uri, t) == PyStr(FileName(input_s3_uri) \o <<"_">> \o Stamp(t))

----------------------------------------------------------------------------
(* ResultProcessor: locating the result file.                              *)

\* f"s3://{output_s3_bucket}/{output_s3_name}/"
OutputUri(bucket, name) == S3Uri(bucket, name) \o <<"/">>

\* What follows the netloc of an s3:// URI (urlsplit: the netloc ends at the
\* first of '/', '?', '#').
AfterNetloc(uri) ==
    LET rest == SubSeq(uri, 4, Len(uri))
        i == FirstIn(rest, {"/", "?", "#"})
    IN IF i = 0 THEN <<>> ELSE SubSeq(rest, i, Len(rest))

\* urlparse(uri).netloc
UrlNetloc(uri) ==
    LET rest == SubSeq(uri, 4, Len(uri))
        i == FirstIn(rest, {"/", "?", "#"})
    IN IF i = 0 THEN rest ELSE SubSeq(rest, 1, i - 1)

\* urlparse(uri).path: the fragment is cut at the first '#', then the query
\* at the first '?'.
UrlPath(uri) ==
    LET a == AfterNetloc(uri)
        j == FirstIn(a, {"#"})
        b == IF j = 0 THEN a ELSE SubSeq(a, 1, j - 1)
        k == FirstIn(b, {"?"})
    IN IF k = 0 THEN b ELSE SubSeq(b, 1, k - 1)

\* The fixed relative path custom_output/0/result.json
RelativePath == <<"custom_output", "/", "0", "/", "result.json">>

\* The key read_bda_output_from_s3 asks storage for.
OutputKey(output_s3_uri) ==
    LET parsed == LStrip(UrlPath(output_s3_uri), "/")
        prefix == IF ~EndsWith(parsed, "/") THEN parsed \o <<"/">> ELSE parsed
        key == prefix \o RelativePath
    IN IF StartsWith(key, "/") THEN LStrip(key, "/") ELSE key

----------------------------------------------------------------------------
(* ResultProcessor: records, responses and external calls.                 *)

NoInvoice == [status |-> "none"]
NoResponse == [statusCode |-> 0]
NoFraction == [t |-> "missing", num |-> 0, den |-> 1]
NoLoop == [name |-> Missing, arn |-> Missing]

\* A review_result of send_to_a2i_review; a key it lacks is Missing.
ReviewResult(action, name, arn, error) ==
    [action |-> action, human_loop_name |-> name, human_loop_arn |-> arn, error |-> error]

NoResult == ReviewResult("", Missing, Missing, Missing)

\* The 500 response of the except block of lambda_handler.
Error500(text) ==
    [statusCode |-> 500,
     message |-> <<"Error processing BDA results: ">> \o text,
     invoice_id |-> Missing, confidence |-> NoFraction, action |-> "",
     a2i_result |-> NoResult]

\* The 200 response of the high-confidence branch.
StoredResponse(data) ==
    [statusCode |-> 200,
     message |-> <<"Invoice stored in DynamoDB">>,
     invoice_id |-> data.invoice_id, confidence |-> data.average_confidence,
     action |-> "stored_in_dynamodb", a2i_result |-> NoResult]

\* The 200 response of the low-confidence branch.
ReviewResponse(data, review_result) ==
    [statusCode |-> 200,
     message |-> <<"Invoice sent to A2I for human review">>,
     invoice_id |-> data.invoice_id, confidence |-> data.average_confidence,
     action |-> "sent_to_a2i", a2i_result |-> review_result]

\* convert_floats on one value: Decimal(str(x)) for a float.
ConvertValue(v) == IF v.t = "float" THEN [v EXCEPT !.t = "decimal"] ELSE v

\* convert_floats(invoice_data): every float of the record and of the nested
\* confidence map becomes a Decimal; nothing else changes.
convert_floats(data) ==
    [data EXCEPT !.average_confidence = ConvertValue(@),
                 !.field_confidences = [r \in RecNames |-> ConvertValue(@[r])],
                 !.vendor_name = ConvertValue(@), !.total_amount = ConvertValue(@),
                 !.tax_amount = ConvertValue(@), !.subtotal = ConvertValue(@),
                 !.invoice_date = ConvertValue(@), !.due_date = ConvertValue(@),
                 !.currency = ConvertValue(@), !.invoice_id = ConvertValue(@)]

\* table.put_item(Item=item) that succeeds: an upsert keyed by invoice_id.
Upsert(tbl, item) == {i \in tbl : i.invoice_id # item.invoice_id} \cup {item}

\* Error texts the durable store and the review service may raise with.
StoreErrors == {<<"ddb-unavailable">>}
InvokeErrors == {<<"a2i-rejected">>}

\* f"Low confidence: {invoice_data['average_confidence']:.2%}"
LowConfidenceReason(data) == PyStr(<<"Low confidence: ">> \o Percent(data.average_confidence))

\* f"A2I error: {str(e)}"
A2IErrorReason(text) == PyStr(<<"A2I error: ">> \o text)

\* f"invoice-review-{invoice_data['invoice_id']}-{timestamp}"
HumanLoopName(data, t) ==
    PyStr(<<"invoice-review-">> \o Str(data.invoice_id) \o <<"-">> \o Stamp(t))

\* The payload handed to the reviewers.
HumanLoopInput(data) ==
    [invoice_id |-> data.invoice_id, vendor_name |-> data.vendor_name,
     total_amount |-> data.total_amount, tax_amount |-> data.tax_amount,
     subtotal |-> data.subtotal, invoice_date |-> data.invoice_date,
     due_date |-> data.due_date, currency |-> data.currency,
     average_confidence |-> data.average_confidence,
     field_confidences |-> data.field_confidences,
     input_s3_uri |-> data.input_s3_uri, output_s3_uri |-> data.output_s3_uri]

\* The invoice_data dictionary extract_invoice_data returns: t1 is the clock
\* read of the fallback identifier, t2 that of processed_timestamp.
InvoiceData(results, input_s3_uri, output_s3_uri, job_id, threshold, t1, t2) ==
    LET fields == GetFields(results.fields)
        scores == ConfidenceScores(fields, Len(FieldTable))
        avg == AvgConfidence(scores)
        extracted == fields["invoice_number"].value
    IN [invoice_id |-> IF UseExtractedId(extracted) THEN extracted
                       ELSE FallbackId(input_s3_uri, t1),
        vendor_name |-> fields["vendor_name"].value,
        total_amount |-> fields["total_amount"].value,
        tax_amount |-> fields["tax_amount"].value,
        subtotal |-> fields["subtotal"].value,
        invoice_date |-> fields["invoice_date"].value,
        due_date |-> fields["due_date"].value,
        currency |-> fields["currency"].value,
        average_confidence |-> avg,
        field_confidences |-> FieldConfidences(fields, Len(FieldTable)),
        input_s3_uri |-> input_s3_uri,
        output_s3_uri |-> output_s3_uri,
        job_id |-> job_id,
        processed_timestamp |-> IsoFormat(t2),
        status |-> RecordStatus(avg, threshold),
        review_reason |-> Missing,
        human_loop_name |-> Missing,
        human_loop_arn |-> Missing]

----------------------------------------------------------------------------
(* Inputs of the ResultProcessor.                                          *)

Yes == PyBool(TRUE)

InvoiceNumberShapes ==
    { Absent,
      Entry(PyStr(<<"N1">>), PyFloat(90), Yes),
      Entry(PyStr(<<>>), PyFloat(90), Yes),
      Entry(PyInt(0), PyFloat(60), Yes),
      Entry(PyNone, PyFloat(90), Yes) }

VendorShapes ==
    { Absent,
      Entry(PyStr(<<"Acme">>), PyFloat(60), Yes),
      Entry(PyStr(<<"Acme">>), PyFloat(20), Yes),
      Entry(PyStr(<<"Acme">>), PyFloat(90), PyBool(FALSE)) }

TotalShapes == {Absent, Entry(PyStr(<<"100.00">>), PyFloat(60), Yes)}

\* A null confidence: sum() raises on it.
TaxShapes == {Absent, Entry(PyStr(<<"7.00">>), PyNone, Yes)}

\* No confidence key: get_field supplies 0.0.
SubtotalShapes == {Absent, Entry(PyStr(<<"93.00">>), Missing, Yes)}

InvoiceDateShapes == {Absent, Entry(PyStr(<<"2026-01-02">>), PyFloat(90), Yes)}

\* No success key: get_field supplies False.
DueDateShapes == {Absent, Entry(PyStr(<<"2026-02-01">>), PyFloat(20), Missing)}

\* No value key: get_field supplies 'USD'.
CurrencyShapes ==
    { Absent,
      Entry(Missing, PyFloat(60), Yes),
      Entry(PyStr(<<"EUR">>), PyFloat(90), Yes) }

\* Every explainability_info[0] built from the shapes above.
AllFields ==
    { [f \in {FieldTable[i].bda : i \in 1..Len(FieldTable)} |->
          CASE f = "Invoice number" -> a
            [] f = "VendorSupplier name" -> b
            [] f = "Total amount due" -> c
            [] f = "Tax amount" -> d
            [] f = "Subtotal" -> e
            [] f = "Invoice date" -> g
            [] f = "Due date" -> h
            [] OTHER -> k] :
        a \in InvoiceNumberShapes, b \in VendorShapes, c \in TotalShapes,
        d \in TaxShapes, e \in SubtotalShapes, g \in InvoiceDateShapes,
        h \in DueDateShapes, k \in CurrencyShapes }

NoFields == [f \in {FieldTable[i].bda : i \in 1..Len(FieldTable)} |-> Absent]

\* A result.json: explainability_info is a list of one dict, an empty list,
\* or not there at all (then the default [{}] is used).
ResultFile(shape, fields) == [explainability_info |-> shape, fields |-> fields]

AllResults ==
    {ResultFile("list", f) : f \in AllFields}
        \cup {ResultFile("missing", NoFields), ResultFile("empty", NoFields)}

\* The example of the documentation (0.9 and 0.6), and a result without fields.
SampleResults ==
    { ResultFile("list", [NoFields EXCEPT
          !["Invoice number"] = Entry(PyStr(<<"N1">>), PyFloat(90), Yes),
          !["VendorSupplier name"] = Entry(PyStr(<<"Acme">>), PyFloat(60), Yes)]),
      ResultFile("list", [NoFields EXCEPT
          !["VendorSupplier name"] = Entry(PyStr(<<"Acme">>), PyFloat(20), Yes)]) }

NameAlphabet == {"o", "/", "#"}
OutNames == StringsUpTo(NameAlphabet, MaxNameLen)
DefaultOutName == <<"output", "/", "inv_20260105", "/", "job", "/", "0">>

InNames == {<<"inv", ".", "pdf">>, <<"in", "/", "scan", ".", "v2", ".", "jpg">>, <<"scan">>}
DefaultInName == <<"inv", ".", "pdf">>

Thresholds == {DefaultThreshold, 75}
FlowArns == {<<>>, <<"arn:flow-definition">>}

CompletionEvent(wellFormed, in_name, out_name) ==
    [wellFormed |-> wellFormed, job_id |-> <<"job-1">>,
     in_bucket |-> "bkt", in_name |-> in_name,
     out_bucket |-> "bkt", out_name |-> out_name]

ProcessorEnv(threshold, arn) == [CONFIDENCE_THRESHOLD |-> threshold, A2I_FLOW_ARN |-> arn]

\* Invocations with every result file, at the default names and threshold.
FieldRuns ==
    { [event |-> CompletionEvent(TRUE, DefaultInName, DefaultOutName),
       env |-> ProcessorEnv(DefaultThreshold, arn), s3obj |-> r] :
        arn \in FlowArns, r \in AllResults }

\* Invocations with every name and threshold, on the sample result files.
NameRuns ==
    { [event |-> CompletionEvent(w, i, o),
       env |-> ProcessorEnv(th, arn), s3obj |-> r] :
        w \in BOOLEAN, i \in InNames, o \in OutNames, th \in Thresholds,
        arn \in FlowArns, r \in SampleResults }

ProcessorRuns == FieldRuns \cup NameRuns

----------------------------------------------------------------------------
(* Inputs of the Submitter.                                                *)

\* unquote_plus(key): '+' is a space, %2F a '/', %20 a space.
unquote_plus(key) ==
    [i \in 1..Len(key) |->
        CASE key[i] = "+" -> " "
          [] key[i] = "%20" -> " "
          [] key[i] = "%2F" -> "/"
          [] OTHER -> key[i]]

ObjectKeys ==
    { <<"inv", ".", "pdf">>, <<"my", "+", "inv", ".", "pdf">>,
      <<"in", "%2F", "scan", ".", "jpg">>, <<"scan">> }

CreatedEvent(wellFormed, key) == [wellFormed |-> wellFormed, bucket |-> "bkt", key |-> key]

SubmitterEnv ==
    [OUTPUT_PREFIX |-> <<"output", "/">>, S3_BUCKET |-> "bkt",
     PROJECT_ARN |-> <<"arn:project">>,
     PROFILE_ARN |-> <<"arn:aws:bedrock:us-east-1:123456789012:data-automation-profile/us.data-automation-v1">>]

SubmitterRuns ==
    { [event |-> CreatedEvent(w, k), env |-> SubmitterEnv, s3obj |-> ResultFile("missing", NoFields)] :
        w \in BOOLEAN, k \in ObjectKeys }

BdaErrors == {<<"bda-throttled">>}

\* The 500 response of the Submitter.
SubmitError500(text) ==
    [statusCode |-> 500, message |-> <<"Error processing invoice: ">> \o text,
     input_file |-> <<>>, job_arn |-> <<>>, output_s3_uri |-> <<>>]

\* f"{OUTPUT_PREFIX}{file_name}_{timestamp}/" under s3://{S3_BUCKET}/
SubmitOutputUri(input_s3_uri, t) ==
    S3Uri(env.S3_BUCKET,
          env.OUTPUT_PREFIX \o FileName(input_s3_uri) \o <<"_">> \o StampUnderscore(t) \o <<"/">>)

----------------------------------------------------------------------------
(* Initial states: one invocation of one of the two handlers.              *)

Init ==
    /\ \E u \in {"ResultProcessor", "Submitter"} :
         \E run \in (IF u = "ResultProcessor" THEN ProcessorRuns ELSE SubmitterRuns) :
            /\ unit = u
            /\ env = run.env
            /\ event = run.event
            /\ s3obj = run.s3obj
    /\ now = 0
    /\ pc = "start"
    /\ output_key = <<>>
    /\ bda_results = ResultFile("missing", NoFields)
    /\ invoice_data = NoInvoice
    /\ human_loop = NoLoop
    /\ err = <<>>
    /\ putItems = <<>>
    /\ table = {}
    /\ a2iCalls = <<>>
    /\ bdaCalls = <<>>
    /\ response = NoResponse

----------------------------------------------------------------------------
(* ResultProcessor: lambda_handler, one action per external call.          *)

InputUri == S3Uri(event.in_bucket, event.in_name)
OutputUriOfEvent == OutputUri(event.out_bucket, event.out_name)
Threshold == env.CONFIDENCE_THRESHOLD

\* The handler returns: nothing of it runs afterwards.
Return(resp) == response' = resp /\ pc' = "done"

\* store_in_dynamodb(data) with its put_item succeeding.
PutSucceeds(data) ==
    /\ putItems' = Append(putItems, [item |-> convert_floats(data), ok |-> TRUE])
    /\ table' = Upsert(table, convert_floats(data))

\* store_in_dynamodb(data) with its put_item raising: the error is re-raised.
PutRaises(data) ==
    /\ putItems' = Append(putItems, [item |-> convert_floats(data), ok |-> FALSE])
    /\ table' = table

\* Event parsing and read_bda_output_from_s3: a malformed event, a missing
\* object and a failed read each end in the except block of the handler.
LocateOutput ==
    /\ unit = "ResultProcessor" /\ pc = "start"
    /\ UNCHANGED <<unit, env, event, s3obj, now, invoice_data, human_loop, err,
                   putItems, table, a2iCalls, bdaCalls>>
    /\ IF ~event.wellFormed
       THEN /\ Return(Error500(<<"'detail'">>))
            /\ UNCHANGED <<output_key, bda_results>>
       ELSE /\ output_key' = OutputKey(OutputUriOfEvent)
            /\ \/ /\ bda_results' = s3obj
                  /\ pc' = "extract"
                  /\ UNCHANGED response
               \/ /\ Return(Error500(<<"BDA output file not found: ">>
                        \o S3Uri(UrlNetloc(OutputUriOfEvent), output_key')))
                  /\ UNCHANGED bda_results
               \/ /\ Return(Error500(<<"s3-unavailable">>))
                  /\ UNCHANGED bda_results

\* extract_invoice_data: IndexError on an empty explainability_info,
\* TypeError on a confidence that is no number, else the record.
ExtractInvoiceData ==
    /\ unit = "ResultProcessor" /\ pc = "extract"
    /\ UNCHANGED <<unit, env, event, s3obj, output_key, bda_results, human_loop,
                   err, putItems, table, a2iCalls, bdaCalls>>
    /\ LET fields == GetFields(bda_results.fields)
           scores == ConfidenceScores(fields, Len(FieldTable))
       IN IF bda_results.explainability_info = "empty"
          THEN /\ Return(Error500(<<"list index out of range">>))
               /\ UNCHANGED <<now, invoice_data>>
          ELSE IF SumRaises(scores)
          THEN /\ Return(Error500(<<"unsupported operand type(s) for +">>))
               /\ UNCHANGED <<now, invoice_data>>
          ELSE \E t1 \in Later : \E t2 \in t1..MaxTime :
                 /\ UseExtractedId(fields["invoice_number"].value) => t1 = now
                 /\ invoice_data' = InvoiceData(bda_results, InputUri, OutputUriOfEvent,
                                                event.job_id, Threshold, t1, t2)
                 /\ now' = t2
                 /\ pc' = "route"
                 /\ UNCHANGED response

\* if avg_confidence >= CONFIDENCE_THRESHOLD (the branch of the handler)
RouteHigh(avg, threshold) == AtLeast(avg, threshold)

\* High confidence: store_in_dynamodb, then the 200 response.
StoreHighConfidence ==
    /\ unit = "ResultProcessor" /\ pc = "route"
    /\ RouteHigh(invoice_data.average_confidence, Threshold)
    /\ UNCHANGED <<unit, env, event, s3obj, now, output_key, bda_results,
                   invoice_data, human_loop, err, a2iCalls, bdaCalls>>
    /\ \/ /\ PutSucceeds(invoice_data)
          /\ Return(StoredResponse(invoice_data))
       \/ \E e \in StoreErrors :
          /\ PutRaises(invoice_data)
          /\ Return(Error500(e))

\* send_to_a2i_review without A2I_FLOW_ARN: store with needs_review.
StoreForManualReview ==
    /\ unit = "ResultProcessor" /\ pc = "route"
    /\ ~RouteHigh(invoice_data.average_confidence, Threshold)
    /\ env.A2I_FLOW_ARN = <<>>
    /\ UNCHANGED <<unit, env, event, s3obj, now, output_key, bda_results,
                   human_loop, err, a2iCalls, bdaCalls>>
    /\ invoice_data' = [invoice_data EXCEPT
                           !.status = "needs_review",
                           !.review_reason = LowConfidenceReason(invoice_data)]
    /\ \/ /\ PutSucceeds(invoice_data')
          /\ Return(ReviewResponse(invoice_data',
                       ReviewResult("stored_for_manual_review", Missing, Missing, Missing)))
       \/ \E e \in StoreErrors :
          /\ PutRaises(invoice_data')
          /\ Return(Error500(e))

\* Mutant of StartHumanLoop: a failed start_human_loop is not noticed and the
\* record goes on to be stored as pending_review.
StartHumanLoopUnnoticed ==
    /\ unit = "ResultProcessor" /\ pc = "route"
    /\ ~RouteHigh(invoice_data.average_confidence, Threshold)
    /\ env.A2I_FLOW_ARN # <<>>
    /\ UNCHANGED <<unit, env, event, s3obj, output_key, bda_results, invoice_data,
                   putItems, table, bdaCalls, response>>
    /\ \E t \in Later :
         LET name == HumanLoopName(invoice_data, t)
             call == [HumanLoopName |-> name,
                      FlowDefinitionArn |-> env.A2I_FLOW_ARN,
                      InputContent |-> HumanLoopInput(invoice_data)]
         IN /\ now' = t
            /\ \/ /\ a2iCalls' = Append(a2iCalls, [call |-> call, ok |-> TRUE])
                  /\ human_loop' = [name |-> name, arn |-> PyStr(<<"arn:human-loop/">> \o name.s)]
                  /\ err' = err
                  /\ pc' = "store_pending"
               \/ \E e \in InvokeErrors :
                  /\ a2iCalls' = Append(a2iCalls, [call |-> call, ok |-> FALSE])
                  /\ human_loop' = [name |-> name, arn |-> Missing]
                  /\ err' = e
                  /\ pc' = "store_pending"

\* send_to_a2i_review with A2I_FLOW_ARN: start_human_loop, which returns the
\* loop ARN or raises into the except block of send_to_a2i_review.
StartHumanLoop ==
    /\ unit = "ResultProcessor" /\ pc = "route"
    /\ ~RouteHigh(invoice_data.average_confidence, Threshold)
    /\ env.A2I_FLOW_ARN # <<>>
    /\ UNCHANGED <<unit, env, event, s3obj, output_key, bda_results, invoice_data,
                   putItems, table, bdaCalls, response>>
    /\ \E t \in Later :
         LET name == HumanLoopName(invoice_data, t)
             call == [HumanLoopName |-> name,
                      FlowDefinitionArn |-> env.A2I_FLOW_ARN,
                      InputContent |-> HumanLoopInput(invoice_data)]
         IN /\ now' = t
            /\ \/ /\ a2iCalls' = Append(a2iCalls, [call |-> call, ok |-> TRUE])
                  /\ human_loop' = [name |-> name, arn |-> PyStr(<<"arn:human-loop/">> \o name.s)]
                  /\ err' = err
                  /\ pc' = "store_pending"
               \/ \E e \in InvokeErrors :
                  /\ a2iCalls' = Append(a2iCalls, [call |-> call, ok |-> FALSE])
                  /\ human_loop' = [name |-> name, arn |-> Missing]
                  /\ err' = e
                  /\ pc' = "store_error"

\* After a successful start_human_loop: store with pending_review.  The
\* store is inside the try block, so its failure reaches the same except
\* block as a failure of start_human_loop.
StorePendingReview ==
    /\ unit = "ResultProcessor" /\ pc = "store_pending"
    /\ UNCHANGED <<unit, env, event, s3obj, now, output_key, bda_results,
                   human_loop, a2iCalls, bdaCalls>>
    /\ invoice_data' = [invoice_data EXCEPT
                           !.status = "pending_review",
                           !.review_reason = LowConfidenceReason(invoice_data),
                           !.human_loop_name = human_loop.name,
                           !.human_loop_arn = human_loop.arn]
    /\ \/ /\ PutSucceeds(invoice_data')
          /\ Return(ReviewResponse(invoice_data',
                       ReviewResult("sent_to_a2i", human_loop.name, human_loop.arn, Missing)))
          /\ err' = err
       \/ \E e \in StoreErrors :
          /\ PutRaises(invoice_data')
          /\ err' = e
          /\ pc' = "store_error"
          /\ UNCHANGED response

\* The except block of send_to_a2i_review: store with a2i_error.
StoreA2IError ==
    /\ unit = "ResultProcessor" /\ pc = "store_error"
    /\ UNCHANGED <<unit, env, event, s3obj, now, output_key, bda_results,
                   human_loop, err, a2iCalls, bdaCalls>>
    /\ invoice_data' = [invoice_data EXCEPT
                           !.status = "a2i_error",
                           !.review_reason = A2IErrorReason(err)]
    /\ \/ /\ PutSucceeds(invoice_data')
          /\ Return(ReviewResponse(invoice_data',
                       ReviewResult("a2i_error", Missing, Missing, PyStr(err))))
       \/ \E e \in StoreErrors :
          /\ PutRaises(invoice_data')
          /\ Return(Error500(e))

----------------------------------------------------------------------------
(* Submitter: lambda_handler.                                              *)

\* Parsing of the S3 event; a malformed event ends in the except block.
SubmitParseEvent ==
    /\ unit = "Submitter" /\ pc = "start"
    /\ UNCHANGED <<unit, env, event, s3obj, now, output_key, bda_results,
                   invoice_data, human_loop, err, putItems, table, a2iCalls, bdaCalls>>
    /\ IF ~event.wellFormed
       THEN Return(SubmitError500(<<"'Records'">>))
       ELSE pc' = "invoke" /\ UNCHANGED response

\* The input_s3_uri of the Submitter.
SubmitInputUri == S3Uri(event.bucket, unquote_plus(event.key))

\* Mutant of InvokeBdaProcessing: a failed call is tried again.
InvokeBdaProcessingRetrying ==
    /\ unit = "Submitter" /\ pc = "invoke"
    /\ UNCHANGED <<unit, env, event, s3obj, output_key, bda_results,
                   invoice_data, human_loop, err, putItems, table, a2iCalls>>
    /\ \E t \in Later :
         LET call == [dataAutomationProfileArn |-> env.PROFILE_ARN,
                      inputS3Uri |-> SubmitInputUri,
                      outputS3Uri |-> SubmitOutputUri(SubmitInputUri, t),
                      dataAutomationProjectArn |-> env.PROJECT_ARN,
                      stage |-> "LIVE",
                      eventBridgeEnabled |-> TRUE]
         IN /\ now' = t
            /\ \/ /\ bdaCalls' = Append(bdaCalls, [call |-> call, ok |-> TRUE])
                  /\ Return([statusCode |-> 200,
                             message |-> <<"BDA job submitted successfully">>,
                             input_file |-> SubmitInputUri,
                             job_arn |-> <<"arn:invocation/1">>,
                             output_s3_uri |-> call.outputS3Uri])
               \/ /\ bdaCalls' = Append(bdaCalls, [call |-> call, ok |-> FALSE])
                  /\ IF Len(bdaCalls) = 0
                     THEN UNCHANGED <<pc, response>>
                     ELSE \E e \in BdaErrors : Return(SubmitError500(e))

\* invoke_bda_processing: one invoke_data_automation_async, then the response.
InvokeBdaProcessing ==
    /\ unit = "Submitter" /\ pc = "invoke"
    /\ UNCHANGED <<unit, env, event, s3obj, output_key, bda_results,
                   invoice_data, human_loop, err, putItems, table, a2iCalls>>
    /\ \E t \in Later :
         LET call == [dataAutomationProfileArn |-> env.PROFILE_ARN,
                      inputS3Uri |-> SubmitInputUri,
                      outputS3Uri |-> SubmitOutputUri(SubmitInputUri, t),
                      dataAutomationProjectArn |-> env.PROJECT_ARN,
                      stage |-> "LIVE",
                      eventBridgeEnabled |-> TRUE]
         IN /\ now' = t
            /\ \/ /\ bdaCalls' = Append(bdaCalls, [call |-> call, ok |-> TRUE])
                  /\ Return([statusCode |-> 200,
                             message |-> <<"BDA job submitted successfully">>,
                             input_file |-> SubmitInputUri,
                             job_arn |-> <<"arn:invocation/1">>,
                             output_s3_uri |-> call.outputS3Uri])
               \/ \E e \in BdaErrors :
                  /\ bdaCalls' = Append(bdaCalls, [call |-> call, ok |-> FALSE])
                  /\ Return(SubmitError500(e))

----------------------------------------------------------------------------

Next ==
    \/ LocateOutput
    \/ ExtractInvoiceData
    \/ StoreHighConfidence
    \/ StoreForManualReview
    \/ StartHumanLoop
    \/ StorePendingReview
    \/ StoreA2IError
    \/ SubmitParseEvent
    \/ InvokeBdaProcessing

Spec == Init /\ [][Next]_vars

----------------------------------------------------------------------------
(* Properties.  What a property needs is stated on the inputs and on the   *)
(* observable effects (requests, stored records, the response), not on the *)
(* operators the actions are built from.                                   *)

Processor == unit = "ResultProcessor"
Finished == pc = "done"
\* The invocation got past extraction: the routing step is, or was, reached.
Routed == Processor /\ invoice_data.status # "none"

\* The average of the record is at least the threshold (boundary included).
High == invoice_data.average_confidence.num
            >= env.CONFIDENCE_THRESHOLD * invoice_data.average_confidence.den
Low == ~High

PutCount == Len(putItems)
PutFailed == \E i \in 1..Len(putItems) : ~putItems[i].ok
InvokeSucceeded == \E i \in 1..Len(a2iCalls) : a2iCalls[i].ok
InvokeFailed == \E i \in 1..Len(a2iCalls) : ~a2iCalls[i].ok

\* C1: an invocation that reaches the routing step has issued exactly one
\* put_item when it returns, on every path, also when a put_item raises.
C1_ExactlyOnePut == (Routed /\ Finished) => PutCount = 1

\* C2: a failed put_item, on whichever path, ends the invocation with
\* status 500 and never with a stored a2i_error record and status 200.
C2_StoreFailurePropagates ==
    (Routed /\ Finished /\ PutFailed) =>
        /\ response.statusCode = 500
        /\ \A r \in table : r.status # "a2i_error"

\* C3: below the threshold with a review endpoint: after a successful
\* start_human_loop the stored record is pending_review with loop name and
\* ARN; after a failed one it is a2i_error with the error text in its
\* reason, and the handler answers 200 once that record is stored.
C3_ReviewOutcome ==
    (Routed /\ Finished /\ Low /\ env.A2I_FLOW_ARN # <<>>) =>
        /\ InvokeSucceeded =>
             \A r \in table :
                /\ r.status = "pending_review"
                /\ r.human_loop_name.t = "str" /\ r.human_loop_arn.t = "str"
        /\ InvokeFailed =>
             /\ \A r \in table :
                   /\ r.status = "a2i_error"
                   /\ r.review_reason.t = "str" /\ r.review_reason.s # <<>>
                   /\ \E e \in InvokeErrors : Contains(r.review_reason.s, e)
             /\ table # {} => response.statusCode = 200

\* C4: at or above the threshold the record is high_confidence, it is handed
\* to store_in_dynamodb and to nothing else, no start_human_loop is issued,
\* and the status written by extract_invoice_data agrees with the branch the
\* handler takes (a put_item of a high_confidence record happens exactly in
\* the invocations whose average is at least the threshold).
C4_HighConfidenceStored ==
    Routed =>
        /\ pc = "route" => (invoice_data.status = "high_confidence" <=> High)
        /\ High =>
             /\ invoice_data.status = "high_confidence"
             /\ a2iCalls = <<>>
             /\ Finished =>
                  /\ PutCount = 1
                  /\ putItems[1].item.status = "high_confidence"
                  /\ putItems[1].ok =>
                       /\ response.statusCode = 200
                       /\ response.action = "stored_in_dynamodb"
        /\ Low => \A i \in 1..PutCount : putItems[i].item.status # "high_confidence"

\* C4 witness: a record whose average is exactly the threshold was stored
\* as high_confidence.
C4_Witness ==
    /\ Routed /\ Finished
    /\ invoice_data.average_confidence.num
           = env.CONFIDENCE_THRESHOLD * invoice_data.average_confidence.den
    /\ \E r \in table : r.status = "high_confidence"

RECURSIVE ParseNat(_)
\* The number a run of digits spells.
ParseNat(digits) ==
    IF digits = <<>> THEN 0
    ELSE 10 * ParseNat(SubSeq(digits, 1, Len(digits) - 1))
           + (CHOOSE d \in 0..9 : Digit(d) = digits[Len(digits)])

\* reason reads "Low confidence: " then digits, '.', two digits, '%', and the
\* number is the average as a percentage, to the nearest hundredth.
IsLowConfidenceReason(reason, avg) ==
    /\ reason.t = "str"
    /\ Len(reason.s) >= 6
    /\ reason.s[1] = "Low confidence: "
    /\ LET body == Tail(reason.s)
           n == Len(body)
           whole == SubSeq(body, 1, n - 4)
           cents == SubSeq(body, n - 2, n - 1)
       IN /\ body[n] = "%"
          /\ body[n - 3] = "."
          /\ \A i \in 1..Len(whole) : whole[i] \in DigitChars
          /\ \A i \in 1..2 : cents[i] \in DigitChars
          /\ LET shown == 100 * ParseNat(whole) + ParseNat(cents)
                 diff == shown * avg.den - 100 * avg.num
             IN 2 * diff <= avg.den /\ -2 * diff <= avg.den

\* C5: below the threshold without a review endpoint, no start_human_loop is
\* issued, the one record handed to the store is needs_review with the reason
\* "Low confidence: {percentage}", and once it is stored the handler answers
\* 200 with the stored_for_manual_review result.
C5_NoEndpointNeedsReview ==
    (Routed /\ Low /\ env.A2I_FLOW_ARN = <<>>) =>
        /\ a2iCalls = <<>>
        /\ \A i \in 1..PutCount :
              /\ putItems[i].item.status = "needs_review"
              /\ IsLowConfidenceReason(putItems[i].item.review_reason,
                                       invoice_data.average_confidence)
        /\ Finished =>
              /\ PutCount = 1
              /\ putItems[1].ok =>
                   /\ table = {putItems[1].item}
                   /\ response.statusCode = 200
                   /\ response.a2i_result.action = "stored_for_manual_review"

\* C5 witness: a needs_review record was stored without a review endpoint,
\* for an average that is no whole percentage.
C5_Witness ==
    /\ Routed /\ Finished /\ Low /\ env.A2I_FLOW_ARN = <<>>
    /\ \E r \in table : r.status = "needs_review"
    /\ response.statusCode = 200
    /\ (100 * invoice_data.average_confidence.num) % invoice_data.average_confidence.den # 0

\* The named fields of the result whose success is true and whose value
\* (with the USD default of the currency) is not null, by position.
QualifyingFields ==
    { i \in 1..Len(FieldTable) :
        LET e == bda_results.fields[FieldTable[i].bda]
        IN /\ e.success = PyBool(TRUE)
           /\ (IF e.value.t = "missing" THEN FieldTable[i].default ELSE e.value).t # "none" }

\* The confidence of a named field of the result, 0.0 when it has none.
RawConfidence(i) ==
    LET e == bda_results.fields[FieldTable[i].bda]
    IN IF e.confidence.t = "missing" THEN 0 ELSE e.confidence.n

RECURSIVE SumOver(_)
SumOver(S) ==
    IF S = {} THEN 0
    ELSE LET i == CHOOSE i \in S : TRUE IN RawConfidence(i) + SumOver(S \ {i})

\* C6: average_confidence is the arithmetic mean of the confidences of exactly
\* the qualifying fields, field_confidences holds exactly those fields, and
\* with no qualifying field the average is 0.0 and the record goes to review
\* for a positive threshold.
C6_AverageOverQualifying ==
    Routed =>
        LET avg == invoice_data.average_confidence
            Q == QualifyingFields
        IN /\ Q # {} => avg.num * Cardinality(Q) = SumOver(Q) * avg.den
           /\ Q = {} => /\ avg.num = 0
                        /\ avg.den = 1
                        /\ env.CONFIDENCE_THRESHOLD > 0 =>
                             /\ pc = "route" => invoice_data.status = "needs_review"
                             /\ \A i \in 1..PutCount :
                                  putItems[i].item.status # "high_confidence"
           /\ \A i \in 1..Len(FieldTable) :
                 LET c == invoice_data.field_confidences[FieldTable[i].rec]
                 IN IF i \in Q THEN c.t # "missing" /\ c.n = RawConfidence(i)
                    ELSE c.t = "missing"

\* C6 witness: a record whose average is taken over some but not all of the
\* fields the result mentions, one of them dropped for a null value and one
\* for a failed extraction.
C6_Witness ==
    /\ Routed
    /\ Cardinality(QualifyingFields) >= 2
    /\ bda_results.fields["Invoice number"].value.t = "none"
    /\ bda_results.fields["VendorSupplier name"].success = PyBool(FALSE)
    /\ bda_results.fields["VendorSupplier name"].confidence.t = "float"

\* The value the result gives for the invoice number; Missing when it gives none.
ExtractedNumber == bda_results.fields["Invoice number"].value

\* id reads {basename of the source file}_{14 digits}.
IsFallbackId(id) ==
    /\ id.t = "str"
    /\ LET n == Len(id.s)
       IN /\ n >= 15
          /\ id.s[n - 14] = "_"
          /\ \A j \in (n - 13)..n : id.s[j] \in DigitChars
          /\ SubSeq(id.s, 1, n - 15) = FileName(InputUri)

\* The identifier of the record is the one used by every request and by the
\* response of the invocation.
SameIdEverywhere ==
    /\ \A i \in 1..PutCount : putItems[i].item.invoice_id = invoice_data.invoice_id
    /\ \A r \in table : r.invoice_id = invoice_data.invoice_id
    /\ \A i \in 1..Len(a2iCalls) :
          LET c == a2iCalls[i].call
              n == Len(c.HumanLoopName.s)
          IN /\ c.InputContent.invoice_id = invoice_data.invoice_id
             /\ SubSeq(c.HumanLoopName.s, 1, n - 14)
                   = <<"invoice-review-">> \o Str(invoice_data.invoice_id) \o <<"-">>
             /\ \A j \in (n - 13)..n : c.HumanLoopName.s[j] \in DigitChars
    /\ (Finished /\ response.statusCode = 200) =>
          response.invoice_id = invoice_data.invoice_id

\* C7 as stated: every present, non-null invoice-number value, an empty string
\* and a zero included, is the identifier of the record.
C7_AnyNonNullValueIsId ==
    (Routed /\ ExtractedNumber.t \notin {"missing", "none"}) =>
        invoice_data.invoice_id = ExtractedNumber

\* C7 amended: the extracted invoice-number value is the identifier when it is
\* present and neither null, an empty string nor a zero; otherwise the
\* identifier is {basename(source_file)}_{14-digit timestamp}; and the one
\* identifier is used in the record key, the review payload, the review-loop
\* name and the response.
C7_TruthyValueIsId ==
    Routed =>
        /\ IF \/ ExtractedNumber.t = "str" /\ ExtractedNumber.s # <<>>
              \/ ExtractedNumber.t \in {"int", "float"} /\ ExtractedNumber.n # 0
           THEN invoice_data.invoice_id = ExtractedNumber
           ELSE IsFallbackId(invoice_data.invoice_id)
        /\ SameIdEverywhere

\* C7 witness: an empty invoice number gave a fallback identifier, which was
\* stored and named in a review loop started a second later.
C7_Witness ==
    /\ Routed /\ Finished
    /\ ExtractedNumber = PyStr(<<>>)
    /\ table # {}
    /\ a2iCalls # <<>>
    /\ LET name == a2iCalls[1].call.HumanLoopName.s
           id == invoice_data.invoice_id.s
       IN name[Len(name)] # id[Len(id)]

\* The destination name without its trailing '/', when it has one.
DestinationPrefix ==
    IF EndsWith(event.out_name, "/")
    THEN SubSeq(event.out_name, 1, Len(event.out_name) - 1)
    ELSE event.out_name

\* C8: the key asked of storage is the destination prefix, one '/', and
\* custom_output/0/result.json.  Stated here for the plain names only: not
\* empty, no leading '/', no '#', with or without a trailing '/'.
C8_KeyIsPrefixSlashPath ==
    ( /\ Processor /\ pc # "start" /\ event.wellFormed
      /\ event.out_name # <<>>
      /\ ~StartsWith(event.out_name, "/")
      /\ ~Contains(event.out_name, <<"#">>) ) =>
        /\ output_key = DestinationPrefix \o <<"/">> \o RelativePath
        /\ ~StartsWith(output_key, "/")

\* C9: the handler answers 200 or 500; a 200 response carries the identifier
\* and the average of the record, and its top-level action and message say
\* "sent to A2I" only when a start_human_loop succeeded.
C9_ResponseNamesAction ==
    (Processor /\ Finished) =>
        /\ response.statusCode \in {200, 500}
        /\ response.statusCode = 200 =>
             /\ response.invoice_id = invoice_data.invoice_id
             /\ response.confidence = invoice_data.average_confidence
             /\ (\/ response.action = "sent_to_a2i"
                 \/ response.message = <<"Invoice sent to A2I for human review">>)
                   => InvokeSucceeded

\* C10: the Submitter issues at most one invoke_data_automation_async: none
\* and a 500 response when the event does not parse; one and a 200 response
\* with the job handle and the destination of that call when it succeeds;
\* one and a 500 response when it raises.
C10_AtMostOneCall ==
    unit = "Submitter" =>
        /\ Len(bdaCalls) <= 1
        /\ Finished =>
             /\ ~event.wellFormed =>
                  /\ bdaCalls = <<>>
                  /\ response.statusCode = 500
                  /\ response.message[1] = "Error processing invoice: "
             /\ event.wellFormed =>
                  /\ Len(bdaCalls) = 1
                  /\ bdaCalls[1].ok =>
                       /\ response.statusCode = 200
                       /\ response.job_arn # <<>>
                       /\ response.output_s3_uri = bdaCalls[1].call.outputS3Uri
                  /\ ~bdaCalls[1].ok =>
                       /\ response.statusCode = 500
                       /\ response.message[1] = "Error processing invoice: "

\* C10 witness: an event whose key needed decoding was submitted with one call.
C10_Witness ==
    /\ unit = "Submitter" /\ Finished
    /\ response.statusCode = 200
    /\ Len(bdaCalls) = 1
    /\ bdaCalls[1].call.inputS3Uri # S3Uri(event.bucket, event.key)

\* C11: every record handed to the store, or stored, with status
\* pending_review carries the loop name of a start_human_loop that has already
\* succeeded in this invocation and the ARN it returned; every one with status
\* high_confidence or needs_review carries no loop name and no ARN, and no
\* start_human_loop has been issued in its invocation.
C11_InvokePrecedesWrite ==
    Processor =>
        \A r \in {putItems[i].item : i \in 1..PutCount} \cup table :
            /\ r.status = "pending_review" =>
                 /\ \E i \in 1..Len(a2iCalls) :
                       /\ a2iCalls[i].ok
                       /\ a2iCalls[i].call.HumanLoopName = r.human_loop_name
                 /\ r.human_loop_name.t = "str"
                 /\ r.human_loop_arn.t = "str"
                 /\ r.human_loop_arn = human_loop.arn
            /\ r.status \in {"high_confidence", "needs_review"} =>
                 /\ r.human_loop_name = Missing
                 /\ r.human_loop_arn = Missing
                 /\ a2iCalls = <<>>

\* C11 witness: a pending_review record is stored, with the name and the ARN
\* of the one successful start_human_loop of the invocation.
C11_Witness ==
    /\ Processor /\ Finished
    /\ Len(a2iCalls) = 1 /\ a2iCalls[1].ok
    /\ \E r \in table :
          /\ r.status = "pending_review"
          /\ r.human_loop_name = a2iCalls[1].call.HumanLoopName
          /\ r.human_loop_arn.t = "str"

====
